---- MODULE Spec2Model ----
(***************************************************************************)
(* Model of .github/scripts/slack-notifier.py: the SlackNotifier class     *)
(* (load_test_summary, create_message_payload, send_notification,          *)
(* send_test_results) and the command line entry point main().             *)
(*                                                                         *)
(* Python values are tagged records [k, n, s]: k is the Python type, n the *)
(* integer value and s the string value.  Texts built by f-strings are     *)
(* sequences of their pieces, each piece formatted as str() formats it.    *)
(* The emoji literals of the source are written as their Slack short codes.*)
(***************************************************************************)
EXTENDS Integers, Sequences, FiniteSets, TLC

\* ---------------------------------------------------------------- bounds
MaxTests == 2
MaxClock == 1

\* --------------------------------------------------------- Python values
PyNone == [k |-> "NoneType", n |-> 0, s |-> ""]
PyInt(i) == [k |-> "int", n |-> i, s |-> ""]
PyStr(t) == [k |-> "str", n |-> 0, s |-> t]
PyBool(b) == [k |-> "bool", n |-> IF b THEN 1 ELSE 0, s |-> ""]
\* marks a key that the dict does not hold
Missing == [k |-> "missing", n |-> 0, s |-> ""]

\* bool(v): None, 0, False, "" and [] are falsy
Truthy(v) ==
    CASE v.k = "NoneType" -> FALSE
      [] v.k = "str" -> v.s # ""
      [] v.k = "list" -> FALSE
      [] OTHER -> v.n # 0

\* str(v) as an f-string formats it
Fmt(v) ==
    CASE v.k = "NoneType" -> "None"
      [] v.k = "str" -> v.s
      [] v.k = "bool" -> IF v.n = 1 THEN "True" ELSE "False"
      [] v.k = "list" -> "[]"
      [] OTHER -> ToString(v.n)

\* str.lower() on the two status words
Lower(t) ==
    CASE t = "SUCCESS" -> "success"
      [] t = "FAILED" -> "failed"
      [] OTHER -> t

\* v == 0 never raises: a non-number is simply unequal
PyEqZero(v) == v.k \in {"int", "bool"} /\ v.n = 0

\* v > 0, v >= c, v < c raise TypeError on str and None
Comparable(v) == v.k \in {"int", "bool"}

\* dict.get(key, default)
Get(d, key, default) == IF key \in DOMAIN d THEN d[key] ELSE default

\* a dict from a full assignment, leaving out the Missing keys
MkDict(raw) == [key \in {x \in DOMAIN raw : raw[x] # Missing} |-> raw[key]]

\* ------------------------------------------------------ SlackNotifier.__init__
\* the check of line 20 left out
InitRaises_Never(webhook_url, bot_token) == FALSE

\* line 20: not webhook_url and not bot_token
InitRaises(webhook_url, bot_token) == ~Truthy(webhook_url) /\ ~Truthy(bot_token)

\* the three attributes set by lines 16-18
NewNotifier(webhook_url, bot_token, channel) ==
    [webhook_url |-> webhook_url, bot_token |-> bot_token, channel |-> channel]

\* --------------------------------------------- SlackNotifier.load_test_summary
PyDict(d) == [k |-> "dict", d |-> d]
NonDict(kind) == [k |-> kind, d |-> <<>>]

FallbackSummary ==
    PyDict([sandbox |-> PyStr("Unknown"),
            total_tests |-> PyInt(0),
            passed_tests |-> PyInt(0),
            failed_tests |-> PyInt(0),
            avg_coverage |-> PyInt(0),
            status |-> PyStr(":question: Unknown"),
            coverage_status |-> PyStr(":question: Unknown")])

\* the exception open() or json.load() raises on the file, "none" if neither
LoadError(file) ==
    CASE file.kind = "missing" -> "FileNotFoundError"
      [] file.kind = "unreadable" -> "PermissionError"
      [] file.kind = "invalid_json" -> "JSONDecodeError"
      [] OTHER -> "none"

\* load_test_summary without its try/except
load_test_summary_Reraises(file) ==
    [exc |-> LoadError(file), value |-> file.value, out |-> <<>>]

\* lines 25-38: the parsed value, or on any Exception the warning and the fallback
load_test_summary(file) ==
    IF LoadError(file) = "none"
    THEN [exc |-> "none", value |-> file.value, out |-> <<>>]
    ELSE [exc |-> "none", value |-> FallbackSummary,
          out |-> <<"Warning: Could not load summary file">>]

\* ---------------------------------------- SlackNotifier.create_message_payload
\* line 44 without the total_tests > 0 conjunct
OverallStatus_IgnoresTotal(d) ==
    IF PyEqZero(Get(d, "failed_tests", PyInt(0))) THEN "SUCCESS" ELSE "FAILED"

\* lines 44-51
OverallStatus(d) ==
    IF PyEqZero(Get(d, "failed_tests", PyInt(0))) /\ Get(d, "total_tests", PyInt(0)).n > 0
    THEN "SUCCESS" ELSE "FAILED"

StatusEmoji(d) == IF OverallStatus(d) = "SUCCESS" THEN ":white_check_mark:" ELSE ":x:"

\* line 57 with > for >=
CoverageColor_StrictWarn(coverage_pct) ==
    IF coverage_pct.n >= 75 THEN ":white_check_mark:"
    ELSE IF coverage_pct.n > 50 THEN ":warning:"
    ELSE ":x:"

\* lines 54-60
CoverageColor(coverage_pct) ==
    IF coverage_pct.n >= 75 THEN ":white_check_mark:"
    ELSE IF coverage_pct.n >= 50 THEN ":warning:"
    ELSE ":x:"

\* line 95
HasFailures(d) == Get(d, "failed_tests", PyInt(0)).n > 0

\* line 105
LowCoverage(coverage_pct) == coverage_pct.n < 75

\* the first exception the method raises on this summary, "none" if it returns:
\* .get on a non-dict (line 44), then the ordered comparisons of lines 44, 55, 95
PayloadError(summary) ==
    CASE summary.k # "dict" -> "AttributeError"
      [] /\ PyEqZero(Get(summary.d, "failed_tests", PyInt(0)))
         /\ ~Comparable(Get(summary.d, "total_tests", PyInt(0))) -> "TypeError"
      [] ~Comparable(Get(summary.d, "avg_coverage", PyInt(0))) -> "TypeError"
      [] ~Comparable(Get(summary.d, "failed_tests", PyInt(0))) -> "TypeError"
      [] OTHER -> "none"

\* lines 64-70
HeaderBlock(d) ==
    [type |-> "header",
     text |-> [type |-> "plain_text",
               text |-> <<StatusEmoji(d), " Salesforce Test Results - ",
                          Fmt(Get(d, "sandbox", PyStr("Unknown")))>>]]

\* lines 71-91
FieldsBlock(d) ==
    [type |-> "section",
     fields |-> <<
        [type |-> "mrkdwn",
         text |-> <<"*Environment:*\n", Fmt(Get(d, "sandbox", PyStr("Unknown")))>>],
        [type |-> "mrkdwn",
         text |-> <<"*Status:*\n", StatusEmoji(d), " ", OverallStatus(d)>>],
        [type |-> "mrkdwn",
         text |-> <<"*Tests:*\n", Fmt(Get(d, "passed_tests", PyInt(0))), "/",
                    Fmt(Get(d, "total_tests", PyInt(0))), " passed">>],
        [type |-> "mrkdwn",
         text |-> <<"*Coverage:*\n", Fmt(Get(d, "avg_coverage", PyInt(0))), "% ",
                    CoverageColor(Get(d, "avg_coverage", PyInt(0)))>>] >>]

\* lines 96-102
FailureBlock(d) ==
    [type |-> "section",
     text |-> [type |-> "mrkdwn",
               text |-> <<":warning: *", Fmt(Get(d, "failed_tests", PyInt(0))),
                          " tests failed* - Immediate attention required">>]]

\* lines 106-112
CoverageBlock(d) ==
    [type |-> "section",
     text |-> [type |-> "mrkdwn",
               text |-> <<":bar_chart: *Coverage Alert:* ",
                          Fmt(Get(d, "avg_coverage", PyInt(0))),
                          "% is below the recommended 75% threshold">>]]

\* lines 115-136
ActionsBlock(github_context) ==
    [type |-> "actions",
     elements |-> <<
        [type |-> "button",
         text |-> [type |-> "plain_text", text |-> <<"View Detailed Report">>],
         url |-> <<github_context.server_url, "/", github_context.repository,
                   "/actions/runs/", github_context.run_id>>,
         style |-> "primary"],
        [type |-> "button",
         text |-> [type |-> "plain_text", text |-> <<"View Repository">>],
         url |-> <<github_context.server_url, "/", github_context.repository>>] >>]

\* lines 139-147; now is the reading of datetime.now()
ContextBlock(github_context, now) ==
    [type |-> "context",
     elements |-> <<
        [type |-> "mrkdwn",
         text |-> <<":robot_face: Triggered by: ", github_context.trigger,
                    " | :date: ", ToString(now), " UTC">>] >>]

\* line 105 as an elif of line 95
Blocks_Elif(d, github_context, now) ==
    <<HeaderBlock(d), FieldsBlock(d)>>
    \o (IF HasFailures(d) THEN <<FailureBlock(d)>>
        ELSE IF LowCoverage(Get(d, "avg_coverage", PyInt(0))) THEN <<CoverageBlock(d)>>
        ELSE <<>>)
    \o <<ActionsBlock(github_context), ContextBlock(github_context, now)>>

\* lines 63-147: the two fixed blocks, the two appends under if, the two appends
Blocks(d, github_context, now) ==
    <<HeaderBlock(d), FieldsBlock(d)>>
    \o (IF HasFailures(d) THEN <<FailureBlock(d)>> ELSE <<>>)
    \o (IF LowCoverage(Get(d, "avg_coverage", PyInt(0))) THEN <<CoverageBlock(d)>> ELSE <<>>)
    \o <<ActionsBlock(github_context), ContextBlock(github_context, now)>>

\* lines 157 and 163 (the same f-string)
FallbackText(d) ==
    <<StatusEmoji(d), " Salesforce tests ", Lower(OverallStatus(d)), " for ",
      Fmt(Get(d, "sandbox", PyStr("Unknown"))), " - ",
      Fmt(Get(d, "passed_tests", PyInt(0))), "/", Fmt(Get(d, "total_tests", PyInt(0))),
      " tests passed, ", Fmt(Get(d, "avg_coverage", PyInt(0))), "% coverage">>

\* line 150 testing the token instead of the webhook URL
WebhookShape_ByToken(self) == ~Truthy(self.bot_token)

\* line 150: the payload is the webhook shape iff self.webhook_url is truthy
WebhookShape(self) == Truthy(self.webhook_url)

\* lines 150-164
Payload(self, d, github_context, now) ==
    IF WebhookShape(self)
    THEN [channel |-> self.channel,
          username |-> "Salesforce CI Bot",
          icon_emoji |-> ":salesforce:",
          blocks |-> Blocks(d, github_context, now),
          text |-> FallbackText(d)]
    ELSE [channel |-> self.channel,
          blocks |-> Blocks(d, github_context, now),
          text |-> FallbackText(d)]

\* no payload has been rendered
NoPayload == [channel |-> ""]

\* lines 40-164
create_message_payload(self, summary, github_context, now) ==
    IF PayloadError(summary) # "none"
    THEN [exc |-> PayloadError(summary), value |-> NoPayload]
    ELSE [exc |-> "none", value |-> Payload(self, summary.d, github_context, now)]

\* --------------------------------------------- SlackNotifier.send_notification
ApiUrl == "https://slack.com/api/chat.postMessage"

\* lines 170-175: the arguments of requests.post in webhook mode
WebhookRequest(self, payload) ==
    [url |-> self.webhook_url.s,
     json |-> payload,
     headers |-> [ContentType |-> "application/json"],
     timeout |-> 30]

\* lines 185-193: the arguments of requests.post in bot-token mode
BotRequest(self, payload) ==
    [url |-> ApiUrl,
     json |-> payload,
     headers |-> [Authorization |-> <<"Bearer ", self.bot_token.s>>,
                  ContentType |-> "application/json"],
     timeout |-> 30]

\* the requests.post calls of one send_notification call (lines 169, 184)
Requests(self, payload) ==
    IF Truthy(self.webhook_url) THEN <<WebhookRequest(self, payload)>>
    ELSE IF Truthy(self.bot_token) THEN <<BotRequest(self, payload)>>
    ELSE <<>>

\* line 177 accepting every 2xx status
WebhookOk_Any2xx(outcome) == outcome.status \in 200..299

\* line 177
WebhookOk(outcome) == outcome.status = 200

\* line 196: result.get('ok')
BotOk(outcome) == Truthy(Get(outcome.body.d, "ok", PyNone))

\* the exception lines 195-196 raise on the response: response.json() on a body
\* that is not JSON, result.get on a parsed body that is not a dict
BotParseError(outcome) ==
    CASE outcome.body.k = "not_json" -> "JSONDecodeError"
      [] outcome.body.k # "dict" -> "AttributeError"
      [] OTHER -> "none"

\* lines 169-201, the body of the try; outcome is what requests.post does
SendTry(self, outcome) ==
    IF Truthy(self.webhook_url)
    THEN IF outcome.exc # "none"
         THEN [ret |-> PyNone, exc |-> outcome.exc, out |-> <<>>]
         ELSE IF WebhookOk(outcome)
         THEN [ret |-> PyBool(TRUE), exc |-> "none",
               out |-> <<"Slack notification sent successfully via webhook">>]
         ELSE [ret |-> PyBool(FALSE), exc |-> "none",
               out |-> <<"Failed to send Slack notification via webhook">>]
    ELSE IF Truthy(self.bot_token)
    THEN IF outcome.exc # "none"
         THEN [ret |-> PyNone, exc |-> outcome.exc, out |-> <<>>]
         ELSE IF BotParseError(outcome) # "none"
         THEN [ret |-> PyNone, exc |-> BotParseError(outcome), out |-> <<>>]
         ELSE IF BotOk(outcome)
         THEN [ret |-> PyBool(TRUE), exc |-> "none",
               out |-> <<"Slack notification sent successfully via bot token">>]
         ELSE [ret |-> PyBool(FALSE), exc |-> "none",
               out |-> <<"Failed to send Slack notification via bot token">>]
    ELSE [ret |-> PyNone, exc |-> "none", out |-> <<>>]

\* send_notification without its except clause
send_notification_NoCatch(self, outcome) == SendTry(self, outcome)

\* lines 166-205: the try with its except Exception
send_notification(self, outcome) ==
    IF SendTry(self, outcome).exc # "none"
    THEN [ret |-> PyBool(FALSE), exc |-> "none",
          out |-> <<"Exception while sending Slack notification">>]
    ELSE SendTry(self, outcome)

\* ----------------------------------------------------------------- inputs
WebhookUrl == "https://hooks.slack.com/services/T/B/X"
BotToken == "xoxb-token"
DefaultChannel == "#salesforce-ci"

\* os.getenv of a credential: unset, set to the empty string, or set
WebhookValues == {PyNone, PyStr(""), PyStr(WebhookUrl)}
TokenValues == {PyNone, PyStr(""), PyStr(BotToken)}

TestCounts == {PyInt(i) : i \in 0..MaxTests}
CoverageValues == {PyInt(49), PyInt(50), PyInt(74), PyInt(75)}

\* the JSON objects a summary file may hold: every read key absent or present,
\* numbers in range, and a string or null where a number is expected
SummaryObjects ==
    {MkDict([sandbox |-> sb, total_tests |-> t, passed_tests |-> p,
             failed_tests |-> f, avg_coverage |-> c]) :
        sb \in {Missing, PyStr("UAT")},
        t \in {Missing, PyStr("many")} \cup TestCounts,
        p \in {Missing} \cup TestCounts,
        f \in {Missing, PyNone} \cup TestCounts,
        c \in {Missing, PyStr("n/a")} \cup CoverageValues}

\* JSON documents that are not objects
NonObjects == {NonDict("list"), NonDict("str"), NonDict("int"), NonDict("NoneType")}

Files ==
    {[kind |-> x, value |-> NonDict("NoneType")] :
        x \in {"missing", "unreadable", "invalid_json"}}
    \cup {[kind |-> "json", value |-> v] : v \in NonObjects}
    \cup {[kind |-> "json", value |-> PyDict(d)] : d \in SummaryObjects}

\* len(sys.argv): the script alone, or the script and the summary path
ArgCounts == {1, 2}

\* the context a direct caller of send_test_results passes
CallerContext ==
    [server_url |-> "https://ghe.example.com", repository |-> "acme/sf",
     run_id |-> "42", trigger |-> "push"]

\* lines 222-227 with the GITHUB_* variables unset: argv beyond the file, else defaults
MainContext(argc) ==
    [server_url |-> IF argc > 2 THEN "https://ghe.example.com" ELSE "https://github.com",
     repository |-> IF argc > 3 THEN "acme/sf" ELSE "unknown/unknown",
     run_id |-> IF argc > 4 THEN "42" ELSE "unknown",
     trigger |-> IF argc > 5 THEN "push" ELSE "unknown"]

NoContext == [server_url |-> "", repository |-> "", run_id |-> "", trigger |-> ""]

\* what requests.post does: raises, or returns a response
ResponseBodies ==
    {[k |-> "not_json", d |-> <<>>], [k |-> "list", d |-> <<>>],
     [k |-> "dict", d |-> <<>>],
     [k |-> "dict", d |-> [ok |-> PyBool(TRUE)]],
     [k |-> "dict", d |-> [ok |-> PyBool(FALSE), error |-> PyStr("channel_not_found")]]}

Outcomes ==
    {[exc |-> e, status |-> 0, body |-> [k |-> "not_json", d |-> <<>>]] :
        e \in {"ConnectionError", "Timeout"}}
    \cup {[exc |-> "none", status |-> st, body |-> b] :
            st \in {200, 201, 500}, b \in ResponseBodies}

NoOutcome == [exc |-> "none", status |-> 0, body |-> [k |-> "not_json", d |-> <<>>]]
NoNotifier == [webhook_url |-> PyNone, bot_token |-> PyNone, channel |-> ""]

\* ------------------------------------------------------------------ state
VARIABLES
    entry,          \* "main": run as a script; "class": SlackNotifier used directly
    argc,           \* len(sys.argv)
    webhook_url,    \* SLACK_WEBHOOK_URL, or the constructor argument
    bot_token,      \* SLACK_BOT_TOKEN, or the constructor argument
    file,           \* what is at the summary path
    pc,             \* position in the run
    github_context,
    notifier,       \* the SlackNotifier object
    summary,        \* singleton sequence: the value load_test_summary returned
    payload,        \* the value create_message_payload returned
    now,            \* datetime.now() as read by create_message_payload
    posts,          \* the requests.post calls made, in order
    response,       \* what the requests.post call did
    success,        \* singleton sequence: the value send_notification returned
    exc,            \* the exception propagating, "none" if none
    stdout,         \* the lines printed
    exit_codes      \* the sys.exit calls made

vars == <<entry, argc, webhook_url, bot_token, file, pc, github_context, notifier,
          summary, payload, now, posts, response, success, exc, stdout, exit_codes>>

inputs == <<entry, argc, webhook_url, bot_token, file>>

Init ==
    /\ entry \in {"main", "class"}
    /\ argc \in IF entry = "main" THEN ArgCounts ELSE {2}
    /\ webhook_url \in WebhookValues
    /\ bot_token \in TokenValues
    /\ file \in Files
    /\ pc = IF entry = "main" THEN "main" ELSE "construct"
    /\ github_context = IF entry = "main" THEN NoContext ELSE CallerContext
    /\ notifier = NoNotifier
    /\ summary = <<>>
    /\ payload = NoPayload
    /\ now = 0
    /\ posts = <<>>
    /\ response = NoOutcome
    /\ success = <<>>
    /\ exc = "none"
    /\ stdout = <<>>
    /\ exit_codes = <<>>

\* where an exception raised inside the class goes: main's except clause
\* (line 243), or out to the caller
Handler == IF entry = "main" THEN "except" ELSE "raised"

\* lines 215-217
MainUsage ==
    /\ pc = "main" /\ argc < 2
    /\ stdout' = Append(stdout, "Usage: python3 slack-notifier.py <summary_file> ...")
    /\ exit_codes' = Append(exit_codes, 1)
    /\ pc' = "exited"
    /\ UNCHANGED <<inputs, github_context, notifier, summary, payload, now, posts,
                   response, success, exc>>

\* lines 219-232
MainConfig ==
    /\ pc = "main" /\ ~(argc < 2)
    /\ github_context' = MainContext(argc)
    /\ pc' = "credentials"
    /\ UNCHANGED <<inputs, notifier, summary, payload, now, posts, response, success,
                   exc, stdout, exit_codes>>

\* line 234
MainCredentialsMissing == ~Truthy(webhook_url) /\ ~Truthy(bot_token)

\* lines 234-236
MainNoCredentials ==
    /\ pc = "credentials" /\ MainCredentialsMissing
    /\ stdout' = Append(stdout, "Error: Either SLACK_WEBHOOK_URL or SLACK_BOT_TOKEN environment variable must be set")
    /\ exit_codes' = Append(exit_codes, 1)
    /\ pc' = "exited"
    /\ UNCHANGED <<inputs, github_context, notifier, summary, payload, now, posts,
                   response, success, exc>>

\* line 238: main enters the try
MainTry ==
    /\ pc = "credentials" /\ ~MainCredentialsMissing
    /\ pc' = "construct"
    /\ UNCHANGED <<inputs, github_context, notifier, summary, payload, now, posts,
                   response, success, exc, stdout, exit_codes>>

\* lines 15-21 (called at line 239, or by a user of the class)
Construct ==
    /\ pc = "construct"
    /\ notifier' = NewNotifier(webhook_url, bot_token, DefaultChannel)
    /\ IF InitRaises(webhook_url, bot_token)
       THEN exc' = "ValueError" /\ pc' = Handler
       ELSE exc' = exc /\ pc' = "load"
    /\ UNCHANGED <<inputs, github_context, summary, payload, now, posts, response,
                   success, stdout, exit_codes>>

\* line 209
LoadTestSummary ==
    /\ pc = "load"
    /\ LET r == load_test_summary(file) IN
        /\ stdout' = stdout \o r.out
        /\ IF r.exc # "none"
           THEN exc' = r.exc /\ pc' = Handler /\ summary' = summary
           ELSE exc' = exc /\ pc' = "render" /\ summary' = <<r.value>>
    /\ UNCHANGED <<inputs, github_context, notifier, payload, now, posts, response,
                   success, exit_codes>>

\* line 210
CreateMessagePayload ==
    /\ pc = "render"
    /\ \E t \in 1..MaxClock :
        LET r == create_message_payload(notifier, summary[1], github_context, t) IN
        /\ now' = t
        /\ payload' = r.value
        /\ IF r.exc # "none"
           THEN exc' = r.exc /\ pc' = Handler
           ELSE exc' = exc /\ pc' = "send"
    /\ UNCHANGED <<inputs, github_context, notifier, summary, posts, response, success,
                   stdout, exit_codes>>

\* line 211
SendNotification ==
    /\ pc = "send"
    /\ \E o \in Outcomes :
        LET r == send_notification(notifier, o) IN
        /\ posts' = posts \o Requests(notifier, payload)
        /\ response' = IF Requests(notifier, payload) = <<>> THEN NoOutcome ELSE o
        /\ stdout' = stdout \o r.out
        /\ IF r.exc # "none"
           THEN exc' = r.exc /\ pc' = Handler /\ success' = success
           ELSE exc' = exc /\ pc' = "returned" /\ success' = <<r.ret>>
    /\ UNCHANGED <<inputs, github_context, notifier, summary, payload, now, exit_codes>>

\* line 241 exiting 0 whatever the result
ExitCode_AlwaysZero(ret) == 0

\* line 241: 0 if success else 1
ExitCode(ret) == IF Truthy(ret) THEN 0 ELSE 1

\* line 241
MainExit ==
    /\ pc = "returned" /\ entry = "main"
    /\ exit_codes' = Append(exit_codes, ExitCode(success[1]))
    /\ pc' = "exited"
    /\ UNCHANGED <<inputs, github_context, notifier, summary, payload, now, posts,
                   response, success, exc, stdout>>

\* lines 243-245
MainExcept ==
    /\ pc = "except"
    /\ stdout' = Append(stdout, "Error")
    /\ exit_codes' = Append(exit_codes, 1)
    /\ exc' = "none"
    /\ pc' = "exited"
    /\ UNCHANGED <<inputs, github_context, notifier, summary, payload, now, posts,
                   response, success>>

Next ==
    \/ MainUsage
    \/ MainConfig
    \/ MainNoCredentials
    \/ MainTry
    \/ Construct
    \/ LoadTestSummary
    \/ CreateMessagePayload
    \/ SendNotification
    \/ MainExit
    \/ MainExcept

Spec == Init /\ [][Next]_vars

TypeOK ==
    /\ pc \in {"main", "credentials", "construct", "load", "render", "send",
               "returned", "except", "raised", "exited"}
    /\ Len(posts) <= 1 /\ Len(exit_codes) <= 1 /\ Len(summary) <= 1 /\ Len(success) <= 1

\* ------------------------------------------------------- claim vocabulary
\* the run was given a summary path and a credential
Configured == argc >= 2 /\ (Truthy(webhook_url) \/ Truthy(bot_token))

\* create_message_payload has returned a payload
Rendered == payload # NoPayload

\* a summary field as the number the claims speak of: a missing field counts as 0
Field(key) == IF key \in DOMAIN summary[1].d THEN summary[1].d[key].n ELSE 0

\* send_notification has been called and has come back
Sent == pc = "returned" \/ (pc = "exited" /\ success # <<>>)

\* C1: every invocation given a summary path and a credential has issued exactly
\* one POST when it exits, whatever the summary file holds, and no invocation
\* issues more than one POST.
C1_ExactlyOnePost ==
    /\ Len(posts) <= 1
    /\ (entry = "main" /\ Configured /\ pc = "exited") => Len(posts) = 1

\* C2: the payload is marked SUCCESS iff total_tests > 0 and failed_tests = 0 (a
\* missing field counting as 0) and FAILED otherwise; the header emoji, the
\* Status field and the fallback text carry that same status.
C2_OverallStatus ==
    Rendered =>
        LET ok == Field("total_tests") > 0 /\ Field("failed_tests") = 0
            word == IF ok THEN "SUCCESS" ELSE "FAILED"
            emoji == IF ok THEN ":white_check_mark:" ELSE ":x:"
        IN  /\ payload.blocks[1].text.text[1] = emoji
            /\ payload.blocks[2].fields[2].text = <<"*Status:*\n", emoji, " ", word>>
            /\ payload.text[1] = emoji
            /\ payload.text[3] = (IF ok THEN "success" ELSE "failed")

C2_Witness ==
    /\ Rendered /\ pc = "send"
    /\ Field("total_tests") > 0 /\ Field("failed_tests") = 0
    /\ payload.blocks[2].fields[2].text[4] = "SUCCESS"

\* C3: when the file is missing, unreadable or not valid JSON, load_test_summary
\* does not raise: it returns the zeroed fallback record and prints a warning,
\* and the run goes on through rendering to one delivery attempt.
C3_LoadFallback ==
    (file.kind # "json" /\ Configured /\ pc \notin {"main", "credentials", "construct", "load"}) =>
        /\ summary = << [k |-> "dict",
                         d |-> [sandbox |-> PyStr("Unknown"), total_tests |-> PyInt(0),
                                passed_tests |-> PyInt(0), failed_tests |-> PyInt(0),
                                avg_coverage |-> PyInt(0),
                                status |-> PyStr(":question: Unknown"),
                                coverage_status |-> PyStr(":question: Unknown")]] >>
        /\ stdout[1] = "Warning: Could not load summary file"
        /\ pc \in {"render", "send", "returned", "exited"}
        /\ pc \in {"render", "send"} => ENABLED Next
        /\ pc \in {"returned", "exited"} => Len(posts) = 1

C3_Witness ==
    /\ file.kind = "missing" /\ entry = "main" /\ pc = "exited"
    /\ Len(posts) = 1 /\ Len(stdout) = 2

\* C4: the exit code is 0 iff a POST was issued and send_notification judged it
\* successful; every other terminating run exits with code 1.
C4_ExitCode ==
    /\ (pc = "exited") = (exit_codes # <<>>)
    /\ pc = "exited" =>
        IF Len(posts) = 1 /\ success = <<PyBool(TRUE)>>
        THEN exit_codes = <<0>>
        ELSE exit_codes = <<1>>

C4_Witness == pc = "exited" /\ exit_codes = <<0>> /\ Len(posts) = 1

\* C5: with neither credential configured (unset or empty) the run exits with code
\* 1 and never issues a POST; constructing SlackNotifier with both absent or
\* empty raises before any other operation runs.
C5_NoCredentials ==
    (~Truthy(webhook_url) /\ ~Truthy(bot_token)) =>
        /\ posts = <<>> /\ summary = <<>> /\ payload = NoPayload /\ success = <<>>
        /\ entry = "main" => /\ pc \in {"main", "credentials", "exited"}
                             /\ pc = "exited" => exit_codes = <<1>>
        /\ entry = "class" => /\ pc \in {"construct", "raised"}
                              /\ pc = "raised" => exc = "ValueError"

C5_Witness ==
    /\ entry = "main" /\ argc >= 2 /\ pc = "exited"
    /\ webhook_url = PyStr("") /\ bot_token = PyNone
    /\ exit_codes = <<1>> /\ posts = <<>>

\* the requests.post call or the reading of its response raised
C6_Raised ==
    \/ response.exc # "none"
    \/ ~Truthy(notifier.webhook_url) /\ response.body.k # "dict"

\* C6: send_notification never raises and always returns a boolean; an exception
\* during the POST or while reading the response is caught, a diagnostic is
\* printed and the result is False.
C6_SendNeverRaises ==
    /\ posts # <<>> => Sent
    /\ Sent =>
        /\ success[1] \in {PyBool(TRUE), PyBool(FALSE)}
        /\ exc = "none"
        /\ C6_Raised =>
            /\ success[1] = PyBool(FALSE)
            /\ \E i \in 1..Len(stdout) : stdout[i] = "Exception while sending Slack notification"

C6_Witness ==
    /\ pc = "returned" /\ ~Truthy(notifier.webhook_url)
    /\ response.exc = "none" /\ response.body.k = "not_json"
    /\ success = <<PyBool(FALSE)>>

\* C7: when the POST completes without an exception, the result is True in webhook
\* mode iff the status is exactly 200, and in bot-token mode iff the ok field of
\* the parsed response body is truthy, whatever the status.
C7_SuccessCriterion ==
    (Sent /\ response.exc = "none") =>
        IF Truthy(notifier.webhook_url)
        THEN (success[1] = PyBool(TRUE)) = (response.status = 200)
        ELSE (success[1] = PyBool(TRUE)) =
                (/\ response.body.k = "dict"
                 /\ "ok" \in DOMAIN response.body.d
                 /\ Truthy(response.body.d["ok"]))

C7_Witness ==
    /\ Sent /\ ~Truthy(notifier.webhook_url)
    /\ response.status = 500 /\ success = <<PyBool(TRUE)>>

\* the failure callout and the coverage alert, recognised by their text
IsFailureCallout(b) ==
    /\ b.type = "section" /\ "text" \in DOMAIN b
    /\ b.text.text[1] = ":warning: *"
    /\ b.text.text[3] = " tests failed* - Immediate attention required"

IsCoverageAlert(b) ==
    /\ b.type = "section" /\ "text" \in DOMAIN b
    /\ b.text.text[1] = ":bar_chart: *Coverage Alert:* "

\* C8: the block list holds the failure callout iff failed_tests > 0 and the
\* coverage alert iff avg_coverage < 75, independently, in the order header, field
\* grid, failure callout, coverage alert, link buttons, footer: 4 to 6 blocks.
C8_ConditionalBlocks ==
    Rendered =>
        LET f == Field("failed_tests") > 0
            c == Field("avg_coverage") < 75
            B == payload.blocks
            n == Len(B)
        IN  /\ n = 4 + (IF f THEN 1 ELSE 0) + (IF c THEN 1 ELSE 0)
            /\ B[1].type = "header"
            /\ B[2].type = "section" /\ "fields" \in DOMAIN B[2]
            /\ f => IsFailureCallout(B[3])
            /\ c => IsCoverageAlert(B[n - 2])
            /\ B[n - 1].type = "actions"
            /\ B[n].type = "context"
            /\ (\E i \in 1..n : IsFailureCallout(B[i])) = f
            /\ (\E i \in 1..n : IsCoverageAlert(B[i])) = c

C8_Witness ==
    /\ Rendered /\ Len(payload.blocks) = 6
    /\ Field("failed_tests") > 0 /\ Field("avg_coverage") = 74 /\ Field("total_tests") > 0
    /\ IsFailureCallout(payload.blocks[3]) /\ IsCoverageAlert(payload.blocks[4])

\* C9: the coverage marker is the good marker for c >= 75, the warning marker for
\* 50 <= c < 75 and the bad marker for c < 50 (a missing avg_coverage counting as
\* 0); the coverage alert is present exactly when the marker is not the good one.
C9_CoverageTier ==
    Rendered =>
        LET c == Field("avg_coverage")
            marker == payload.blocks[2].fields[4].text[4]
            B == payload.blocks
        IN  /\ c >= 75 => marker = ":white_check_mark:"
            /\ (50 <= c /\ c < 75) => marker = ":warning:"
            /\ c < 50 => marker = ":x:"
            /\ (\E i \in 1..Len(B) : IsCoverageAlert(B[i])) = (marker # ":white_check_mark:")

C9_Witness ==
    /\ Rendered /\ Field("avg_coverage") = 50
    /\ payload.blocks[2].fields[4].text = <<"*Coverage:*\n", "50", "% ", ":warning:">>

\* C10: the payload carries username and icon iff the POST goes to the webhook
\* URL; otherwise it carries only channel, blocks and text and goes to the API
\* endpoint with the bearer token.  With both credentials the webhook is used for
\* both and the token is never sent.  Channel, blocks and text of a summary and
\* context are the same in both modes.
C10_ShapeMatchesEndpoint ==
    /\ posts # <<>> =>
        LET r == posts[1] IN
        /\ r.json = payload
        /\ ({"username", "icon_emoji"} \subseteq DOMAIN r.json) =
                (Truthy(webhook_url) /\ r.url = webhook_url.s)
        /\ IF Truthy(webhook_url)
           THEN /\ r.url = webhook_url.s
                /\ DOMAIN r.json = {"channel", "username", "icon_emoji", "blocks", "text"}
                /\ "Authorization" \notin DOMAIN r.headers
           ELSE /\ r.url = "https://slack.com/api/chat.postMessage"
                /\ DOMAIN r.json = {"channel", "blocks", "text"}
                /\ r.headers.Authorization = <<"Bearer ", bot_token.s>>
    /\ Rendered =>
        LET n == IF Truthy(notifier.webhook_url)
                 THEN NewNotifier(PyNone, PyStr(BotToken), notifier.channel)
                 ELSE NewNotifier(PyStr(WebhookUrl), PyNone, notifier.channel)
            other == create_message_payload(n, summary[1], github_context, now).value
        IN  /\ ("username" \in DOMAIN other) # ("username" \in DOMAIN payload)
            /\ other.channel = payload.channel
            /\ other.blocks = payload.blocks
            /\ other.text = payload.text

C10_Witness ==
    /\ Truthy(webhook_url) /\ Truthy(bot_token) /\ posts # <<>>
    /\ posts[1].url = WebhookUrl
    /\ "username" \in DOMAIN posts[1].json

====
